---- MODULE Spec2Model ----
(***************************************************************************)
(* Model of the multi-server DNS-01 solver of istio-dns01-bind9:          *)
(*   - DNS01Solver (Present / CleanUp / Initialize, parseConfig,           *)
(*     getTSIGSecret),                                                     *)
(*   - MultiServerDNS (the fan-out coordinator with its WaitGroup,         *)
(*     error channel and mutex-protected success counter),                 *)
(*   - RFC2136Client (one dynamic update against one server),              *)
(*   - the authoritative servers' zones, as far as TXT records go.         *)
(* Strings that the code normalises (names, zones, key names) are          *)
(* sequences of labels; a trailing "." label is the root dot.              *)
(***************************************************************************)
EXTENDS Integers, Sequences, FiniteSets, TLC

VARIABLES
    client,        \* DNS01Solver.client: "nil" before Initialize, "kube" after
    pc,            \* position of the request goroutine
    req,           \* the request being served (arguments of the call)
    m,             \* the MultiServerDNS built for the request
    launched,      \* number of goroutines started by the for-loop so far
    wg,            \* sync.WaitGroup counter
    task,          \* task[i]: position of the goroutine for servers[i]
    outcome,       \* outcome[i]: what the client call for servers[i] returned
    successCount,  \* successCount (guarded by mu)
    errChan,       \* buffered channel of per-server errors
    result,        \* what the operation returned
    attempts,      \* attempts[i]: client calls made for servers[i]
    sent,          \* sent[i]: update messages put on the wire to servers[i]
    lookups,       \* secret-store Get calls made for the request
    ctxDone,       \* the ctx handed to the coordinator has been cancelled
    zone,          \* zone[i][name]: TXT values server i holds at name
    call,          \* arguments of the coordinator call in progress
    spawned,       \* per-server goroutines launched so far, over all requests
    prev,          \* summary of the last returned request that reached servers
    others,        \* others[i]: records of other types server i holds
    log,           \* log events written while serving the request
    peer           \* the locals of a second call running on the same solver

vars == <<client, pc, req, m, launched, wg, task, outcome, successCount,
          errChan, result, attempts, sent, lookups, ctxDone, zone, call, spawned, prev,
          others, log, peer>>

----------------------------------------------------------------------------
(* Bounds *)

MaxTasks == 3      \* per-server goroutines launched in one behaviour, over all requests

----------------------------------------------------------------------------
(* Program constants *)

DefaultTTL == 60
Fudge == 300
RcodeSuccess == 0

ServerIds == 1..MaxTasks

(* dns.IsFqdn / dns.Fqdn: add the root dot unless it is already there. *)
IsFqdn(s) == Len(s) > 0 /\ s[Len(s)] = "."

Fqdn(s) == IF IsFqdn(s) THEN s ELSE Append(s, ".")

----------------------------------------------------------------------------
(* Inputs *)

Keys == {"tokenA", "tokenB"}

Preexisting == {"old"}

TXTValues == Keys \cup Preexisting

(* resolvedFQDN as handed in by the caller, with and without the root dot *)
FQDNs == { <<"_acme-challenge", "app", "example", "com", ".">>,
           <<"_acme-challenge", "app", "example", "com">> }

(* another name of the zone, with a TXT record of its own *)
OtherName == <<"www", "example", "com", ".">>

OtherTXT == {"v=spf1 -all"}

ZoneNames == FQDNs \cup { Fqdn(f) : f \in FQDNs } \cup {OtherName}

(* what the zone holds besides TXT records *)
OtherRecords == { [name |-> Fqdn(f), type |-> "CAA"] : f \in FQDNs }
                \cup { [name |-> OtherName, type |-> "A"] }

SecretValue == "s3cr3t"

(* The secret store of the request's namespace: which secrets exist and    *)
(* which keys the secret's Data map has.                                   *)
Stores == { [names |-> {}, keys |-> {}],
            [names |-> {"tsig-secret"}, keys |-> {}],
            [names |-> {"tsig-secret"}, keys |-> {"secret"}] }

NoFields == [f \in {} |-> 0]

ServerList(n) == [i \in 1..n |-> i]

BaseFields(n) ==
    [servers |-> ServerList(n), zone |-> <<"example", "com">>,
     tsigKeyName |-> <<"acme-key">>, tsigSecretName |-> "tsig-secret"]

Without(fields, f) == [g \in (DOMAIN fields) \ {f} |-> fields[g]]

RequiredFields == {"servers", "zone", "tsigKeyName", "tsigSecretName"}

(* Configuration documents (ch.Config): absent, empty, not JSON, or a      *)
(* JSON object carrying some of the fields.                                *)
ValidDocs == { [raw |-> "json", fields |-> BaseFields(n)] : n \in 1..MaxTasks }

InvalidDocs ==
    { [raw |-> r, fields |-> NoFields] : r \in {"nil", "empty", "malformed"} }
    \cup { [raw |-> "json", fields |-> BaseFields(0)] }
    \cup { [raw |-> "json", fields |-> Without(BaseFields(1), f)] : f \in RequiredFields }

Docs == ValidDocs \cup InvalidDocs

(* One-server deployments, over a wider range of inputs: a resolvedFQDN    *)
(* outside the configured zone, documents that set optional fields, a      *)
(* secret stored under a key of its own.                                   *)
OutsideFQDN == <<"_acme-challenge", "app", "other", "org", ".">>

WideFQDNs == FQDNs \cup {OutsideFQDN}

OptionalFields(alg, key, ttl) ==
    (IF alg = <<>> THEN NoFields ELSE [tsigAlgorithm |-> alg])
    @@ (IF key = "" THEN NoFields ELSE [tsigSecretKey |-> key])
    @@ (IF ttl = <<>> THEN NoFields ELSE [ttl |-> ttl[1]])

SingleDocs ==
    { [raw |-> "json", fields |-> BaseFields(1) @@ OptionalFields(alg, key, ttl)] :
          alg \in {<<>>, <<"hmac-sha512", ".">>},
          key \in {"", "tsig.key"},
          ttl \in {<<>>, <<0>>, <<300>>, <<-1>>} }

SingleStores == { [names |-> {"tsig-secret"}, keys |-> {"secret"}],
                  [names |-> {"tsig-secret"}, keys |-> {"tsig.key"}] }

----------------------------------------------------------------------------
(* DNS01Solver *)

ConfigDefaults ==
    [servers |-> <<>>, zone |-> <<>>, tsigKeyName |-> <<>>,
     tsigAlgorithm |-> <<"hmac-sha256">>, tsigSecretName |-> "",
     tsigSecretKey |-> "secret", ttl |-> DefaultTTL]

(* a decoder that takes a ttl of 0 for an absent ttl *)
UnmarshalZeroTTLAbsent(fields, config) ==
    [f \in DOMAIN config |->
        IF f \in DOMAIN fields /\ ~(f = "ttl" /\ fields[f] = 0)
        THEN fields[f] ELSE config[f]]

(* json.Unmarshal into the pre-filled Config: present fields overwrite. *)
Unmarshal(fields, config) ==
    [f \in DOMAIN config |-> IF f \in DOMAIN fields THEN fields[f] ELSE config[f]]

(* parseConfig without the zone check *)
parseConfigNoZoneCheck(doc) ==
    LET config == Unmarshal(doc.fields, ConfigDefaults) IN
    IF doc.raw \in {"nil", "empty"} THEN [err |-> "config is empty", config |-> ConfigDefaults]
    ELSE IF doc.raw = "malformed" THEN [err |-> "failed to unmarshal config", config |-> ConfigDefaults]
    ELSE IF Len(config.servers) = 0 THEN [err |-> "servers list is required", config |-> config]
    ELSE IF config.tsigKeyName = <<>> THEN [err |-> "tsigKeyName is required", config |-> config]
    ELSE IF config.tsigSecretName = "" THEN [err |-> "tsigSecretName is required", config |-> config]
    ELSE [err |-> "", config |-> config]

parseConfig(doc) ==
    LET config == Unmarshal(doc.fields, ConfigDefaults) IN
    IF doc.raw \in {"nil", "empty"} THEN [err |-> "config is empty", config |-> ConfigDefaults]
    ELSE IF doc.raw = "malformed" THEN [err |-> "failed to unmarshal config", config |-> ConfigDefaults]
    ELSE IF Len(config.servers) = 0 THEN [err |-> "servers list is required", config |-> config]
    ELSE IF config.zone = <<>> THEN [err |-> "zone is required", config |-> config]
    ELSE IF config.tsigKeyName = <<>> THEN [err |-> "tsigKeyName is required", config |-> config]
    ELSE IF config.tsigSecretName = "" THEN [err |-> "tsigSecretName is required", config |-> config]
    ELSE [err |-> "", config |-> config]

(* getTSIGSecret reading secret.Data[key] without looking at the ok flag *)
getTSIGSecretNoKeyCheck(cl, store, secretName, key) ==
    IF cl = "nil" THEN [err |-> "kubernetes client not initialized", secret |-> "", gets |-> 0]
    ELSE IF secretName \notin store.names THEN [err |-> "failed to get secret", secret |-> "", gets |-> 1]
    ELSE [err |-> "", secret |-> IF key \in store.keys THEN SecretValue ELSE "", gets |-> 1]

getTSIGSecret(cl, store, secretName, key) ==
    IF cl = "nil" THEN [err |-> "kubernetes client not initialized", secret |-> "", gets |-> 0]
    ELSE IF secretName \notin store.names THEN [err |-> "failed to get secret", secret |-> "", gets |-> 1]
    ELSE IF key \notin store.keys THEN [err |-> "key not found in secret", secret |-> "", gets |-> 1]
    ELSE [err |-> "", secret |-> SecretValue, gets |-> 1]

----------------------------------------------------------------------------
(* MultiServerDNS *)

(* half of the servers, rounded up, instead of half plus one *)
minSuccessHalf(n) == IF (n + 1) \div 2 < 1 THEN 1 ELSE (n + 1) \div 2

(* no threshold at all for an empty server list *)
minSuccessZeroForNone(n) == IF n = 0 THEN 0 ELSE n \div 2 + 1

minSuccessOf(n) == IF n \div 2 + 1 < 1 THEN 1 ELSE n \div 2 + 1

NewMultiServerDNS(servers, zn, tsigKey, tsigAlg, tsigSec) ==
    [servers |-> servers, zone |-> zn, tsigKey |-> tsigKey, tsigAlg |-> tsigAlg,
     tsigSec |-> tsigSec, minSuccess |-> minSuccessOf(Len(servers))]

NoManager == NewMultiServerDNS(<<>>, <<>>, <<>>, <<>>, "")

----------------------------------------------------------------------------
(* RFC2136Client *)

NewRFC2136Client(server, zn, tsigKey, tsigAlg, tsigSec) ==
    [server |-> server, zone |-> zn, tsigKey |-> tsigKey, tsigAlg |-> tsigAlg,
     tsigSec |-> tsigSec, timeout |-> 10]

(* uint32(ttl): the 32-bit two's-complement value, as its two 16-bit halves *)
Uint32(n) == [hi |-> (n \div 65536) % 65536, lo |-> n % 65536]

(* a message whose Zone section takes c.zone as configured *)
UpdateMsgRawZone(c, rr) ==
    [opcode |-> "UPDATE",
     zone   |-> [name |-> c.zone, type |-> "SOA", class |-> "IN"],
     prereq |-> <<>>,
     update |-> <<rr>>,
     tsig   |-> [key |-> c.tsigKey, alg |-> c.tsigAlg, fudge |-> Fudge]]

(* msg.SetUpdate(dns.Fqdn(c.zone)) ... msg.SetTsig(c.tsigKey, c.tsigAlg, 300, now) *)
UpdateMsg(c, rr) ==
    [opcode |-> "UPDATE",
     zone   |-> [name |-> Fqdn(c.zone), type |-> "SOA", class |-> "IN"],
     prereq |-> <<>>,
     update |-> <<rr>>,
     tsig   |-> [key |-> c.tsigKey, alg |-> c.tsigAlg, fudge |-> Fudge]]

(* AddTXTRecord calling msg.RemoveRRset where it should call msg.Insert *)
AddTXTMsgRemoveRRset(c, fqdn, value, ttl) ==
    UpdateMsg(c, [name |-> Fqdn(fqdn), type |-> "TXT", class |-> "ANY",
                  ttl |-> Uint32(0), txt |-> <<>>])

(* AddTXTRecord deleting the RRset before it inserts the record *)
AddTXTMsgReplace(c, fqdn, value, ttl) ==
    [UpdateMsg(c, [name |-> Fqdn(fqdn), type |-> "TXT", class |-> "IN",
                   ttl |-> Uint32(ttl), txt |-> <<value>>])
        EXCEPT !.update = <<[name |-> Fqdn(fqdn), type |-> "TXT", class |-> "ANY",
                             ttl |-> Uint32(0), txt |-> <<>>]>> \o @]

(* msg.Insert: the record as built, class IN *)
AddTXTMsg(c, fqdn, value, ttl) ==
    UpdateMsg(c, [name |-> Fqdn(fqdn), type |-> "TXT", class |-> "IN",
                  ttl |-> Uint32(ttl), txt |-> <<value>>])

(* DeleteTXTRecord calling msg.Remove (delete one RR, class NONE) where it *)
(* should call msg.RemoveRRset                                            *)
DeleteTXTMsgRemove(c, fqdn) ==
    UpdateMsg(c, [name |-> Fqdn(fqdn), type |-> "TXT", class |-> "NONE",
                  ttl |-> Uint32(0), txt |-> <<>>])

(* DeleteTXTRecord calling msg.RemoveName (delete every RRset of the name, *)
(* type ANY) where it should call msg.RemoveRRset                          *)
DeleteTXTMsgRemoveName(c, fqdn) ==
    UpdateMsg(c, [name |-> Fqdn(fqdn), type |-> "ANY", class |-> "ANY",
                  ttl |-> Uint32(0), txt |-> <<>>])

(* msg.RemoveRRset: name and type of the record, class ANY, ttl 0, no rdata *)
DeleteTXTMsg(c, fqdn) ==
    UpdateMsg(c, [name |-> Fqdn(fqdn), type |-> "TXT", class |-> "ANY",
                  ttl |-> Uint32(0), txt |-> <<>>])

----------------------------------------------------------------------------
(* The authoritative server: RFC 2136 update section applied to the TXT    *)
(* records of one zone (z maps a name to the set of TXT values there).     *)

Range(s) == { s[i] : i \in DOMAIN s }

(* class IN adds to the RRset, class ANY deletes the RRset of the type    *)
(* (type ANY: every RRset of the name), class NONE deletes one record.     *)
ApplyRR(z, rr) ==
    IF rr.name \notin DOMAIN z THEN z
    ELSE IF rr.class = "ANY" /\ rr.type = "ANY" THEN [z EXCEPT ![rr.name] = {}]
    ELSE IF rr.type # "TXT" THEN z
    ELSE IF rr.class = "IN" THEN [z EXCEPT ![rr.name] = @ \cup Range(rr.txt)]
    ELSE IF rr.class = "ANY" THEN [z EXCEPT ![rr.name] = {}]
    ELSE IF rr.class = "NONE" THEN [z EXCEPT ![rr.name] = @ \ Range(rr.txt)]
    ELSE z

(* the records of the Update section, applied in their order *)
RECURSIVE ApplyAll(_, _)
ApplyAll(z, rrs) ==
    IF rrs = <<>> THEN z ELSE ApplyAll(ApplyRR(z, Head(rrs)), Tail(rrs))

ServerApply(z, msg) == ApplyAll(z, msg.update)

(* The same update applied to the records of other types (o is a set of   *)
(* name/type pairs).                                                      *)
ApplyRROthers(o, rr) ==
    IF rr.class = "ANY" /\ rr.type = "ANY" THEN { r \in o : r.name # rr.name }
    ELSE IF rr.class = "ANY" THEN { r \in o : ~(r.name = rr.name /\ r.type = rr.type) }
    ELSE o

RECURSIVE ApplyAllOthers(_, _)
ApplyAllOthers(o, rrs) ==
    IF rrs = <<>> THEN o ELSE ApplyAllOthers(ApplyRROthers(o, Head(rrs)), Tail(rrs))

ServerApplyOthers(o, msg) == ApplyAllOthers(o, msg.update)

----------------------------------------------------------------------------
(* Per-server results *)

(* RCODEs the servers answer with: NOERROR and, for a rejected update, REFUSED *)
Rcodes == {RcodeSuccess, 5}

(* with the RCODEs of a failed prerequisite and of a refused signer:       *)
(* NXRRSET and NOTAUTH                                                     *)
AllRcodes == Rcodes \cup {8, 9}

RcodeToString(rc) == IF rc = RcodeSuccess THEN "NOERROR"
                     ELSE IF rc = 5 THEN "REFUSED"
                     ELSE IF rc = 8 THEN "NXRRSET"
                     ELSE IF rc = 9 THEN "NOTAUTH" ELSE ""

(* The TSIG record of a reply as it arrives: verifiable, absent, with a    *)
(* MAC that does not match, under a key name the client has no secret     *)
(* for, or signed outside the fudge window.                                *)
TsigStates == {"valid", "missing", "badsig", "badkey", "badtime"}

NoOutcome == [kind |-> "none", rcode |-> 0, cause |-> "", tsig |-> "none", tc |-> FALSE]

Reply(rc) == [kind |-> "reply", rcode |-> rc, cause |-> "", tsig |-> "valid", tc |-> FALSE]

ReplyTsig(rc, t) == [kind |-> "reply", rcode |-> rc, cause |-> "", tsig |-> t, tc |-> FALSE]

(* a UDP reply with the TC bit set *)
Truncated(rc) == [kind |-> "reply", rcode |-> rc, cause |-> "", tsig |-> "valid", tc |-> TRUE]

Refused == Reply(5)

ExchangeErr(e) == [kind |-> "error", rcode |-> 0, cause |-> e, tsig |-> "none", tc |-> FALSE]

(* The server answered NOERROR and its answer never arrived: the exchange *)
(* ends with the timeout.                                                  *)
LostReply == [kind |-> "lost", rcode |-> RcodeSuccess, cause |-> "i/o timeout",
              tsig |-> "valid", tc |-> FALSE]

(* The server has applied the update: it answered NOERROR. *)
Applied(out) == out.kind \in {"reply", "lost"} /\ out.rcode = RcodeSuccess

NoError == [msg |-> "", cause |-> "", rcode |-> 0]

(* client.TsigSecret is set, so ExchangeContext verifies the TSIG record   *)
(* of the reply it read, when the reply has one, and returns the           *)
(* verification error next to the reply; a reply without a TSIG record is  *)
(* returned as read. The client itself never looks at the reply's TSIG.    *)
TsigVerify(t) == IF t = "badsig" THEN "dns: bad signature"
                 ELSE IF t = "badkey" THEN "dns: no secrets defined"
                 ELSE IF t = "badtime" THEN "dns: bad time"
                 ELSE ""

(* reply, _, err := client.ExchangeContext(ctx, msg, c.server+":53") *)
ExchangeContext(out) ==
    IF out.kind \in {"error", "lost"} THEN [rcode |-> 0, err |-> out.cause]
    ELSE [rcode |-> out.rcode, err |-> TsigVerify(out.tsig)]

(* a client that takes every reply it could read for a success *)
ClientErrorNoRcodeCheck(out) ==
    LET ex == ExchangeContext(out) IN
    IF ex.err # ""
        THEN [msg |-> "failed to send DNS update", cause |-> ex.err, rcode |-> 0]
    ELSE NoError

(* What RFC2136Client.AddTXTRecord / DeleteTXTRecord return for an         *)
(* exchange that ended with out.                                           *)
ClientError(out) ==
    LET ex == ExchangeContext(out) IN
    IF ex.err # ""
        THEN [msg |-> "failed to send DNS update", cause |-> ex.err, rcode |-> 0]
    ELSE IF ex.rcode # RcodeSuccess
        THEN [msg |-> "DNS update failed", cause |-> RcodeToString(ex.rcode), rcode |-> ex.rcode]
    ELSE NoError

(* fmt.Errorf("server %s: %w", srv, err) *)
ServerError(srv, err) == [server |-> srv, err |-> err]

----------------------------------------------------------------------------
(* Reduction at the end of the coordinator call *)

(* goroutines that read the counter without the mutex, all before any of  *)
(* them has written it back                                                *)
CountSuccessUnlocked(sc) == IF sc >= 1 THEN sc ELSE sc + 1

(* mu.Lock(); successCount++; mu.Unlock() *)
CountSuccess(sc) == sc + 1

(* a channel one slot short of the number of servers *)
ErrChanCapShort(n) == n - 1

(* errChan := make(chan error, len(m.servers)) *)
ErrChanCap(n) == n

(* a barrier released while one goroutine is still running *)
WaitReturnsEarly(w) == w <= 1

(* wg.Wait() *)
WaitReturns(w) == w = 0

(* a drain loop that overwrites what it collected with each error read *)
CollectLastError(ch) == IF ch = <<>> THEN <<>> ELSE <<ch[Len(ch)]>>

(* a drain loop that stops after the first error *)
CollectFirstError(ch) == IF ch = <<>> THEN <<>> ELSE <<ch[1]>>

(* close(errChan); for err := range errChan { errors = append(errors, err) } *)
CollectErrors(ch) == ch

(* the add judged with the leniency of the delete *)
AddInsufficientNone(sc, minSuccess) == sc = 0

AddInsufficient(sc, minSuccess) == sc < minSuccess

(* a delete that is never judged to have failed *)
DeleteFailedNever(sc) == sc < 0

(* a delete that needs two servers to succeed *)
DeleteFailedUnlessTwo(sc) == sc < 2

DeleteFailed(sc) == sc = 0

Ok == [ok |-> TRUE, err |-> "", detail |-> "", errors |-> <<>>]

Failure(e, detail, errors) == [ok |-> FALSE, err |-> e, detail |-> detail, errors |-> errors]

NoResult == [ok |-> FALSE, err |-> "pending", detail |-> "", errors |-> <<>>]

(* DeleteTXTRecord applying the majority threshold of AddTXTRecord *)
CoordinatorResultMajority(op, sc, mgr, errors) ==
    IF AddInsufficient(sc, mgr.minSuccess)
        THEN Failure(IF op = "add" THEN "insufficient successful updates"
                     ELSE "failed to delete on all servers", "", errors)
        ELSE Ok

CoordinatorResult(op, sc, mgr, errors) ==
    IF op = "add" THEN
        IF AddInsufficient(sc, mgr.minSuccess)
            THEN Failure("insufficient successful updates", "", errors) ELSE Ok
    ELSE
        IF DeleteFailed(sc)
            THEN Failure("failed to delete on all servers", "", errors) ELSE Ok

(* Present / CleanUp wrap the coordinator's error. *)
SolverResult(op, r) ==
    IF r.ok THEN Ok
    ELSE Failure(IF op = "add" THEN "failed to add TXT record"
                 ELSE "failed to delete TXT record", r.err, r.errors)

----------------------------------------------------------------------------
(* Log events: the message, the fqdn and server fields, the other string   *)
(* fields (strs) and the error field.                                      *)

LogEvent(text, fqdn, server, strs, err) ==
    [msg |-> text, fqdn |-> fqdn, server |-> server, strs |-> strs, err |-> err]

(* Present / CleanUp: fqdn, key, namespace *)
SolverEntryLog(op, fqdn, key) ==
    LogEvent(IF op = "add" THEN "Presenting DNS01 challenge"
             ELSE "Cleaning up DNS01 challenge", fqdn, 0, {key}, NoError)

SolverExitLog(op, fqdn) ==
    LogEvent(IF op = "add" THEN "DNS01 challenge presented successfully"
             ELSE "DNS01 challenge cleaned up successfully", fqdn, 0, {}, NoError)

(* MultiServerDNS: fqdn, value (add only), servers *)
CoordinatorEntryLog(op, fqdn, value) ==
    IF op = "add"
    THEN LogEvent("Adding TXT record to multiple servers", fqdn, 0, {value}, NoError)
    ELSE LogEvent("Deleting TXT record from multiple servers", fqdn, 0, {}, NoError)

(* a client that writes its TSIG secret next to the server and the zone *)
ClientEntryLogWithSecret(op, c, fqdn, value) ==
    IF op = "add"
    THEN LogEvent("Adding TXT record", fqdn, c.server, {value, c.tsigSec}, NoError)
    ELSE LogEvent("Deleting TXT record", fqdn, c.server, {c.tsigSec}, NoError)

(* RFC2136Client: fqdn, value (add only), server, zone *)
ClientEntryLog(op, c, fqdn, value) ==
    IF op = "add"
    THEN LogEvent("Adding TXT record", fqdn, c.server, {value}, NoError)
    ELSE LogEvent("Deleting TXT record", fqdn, c.server, {}, NoError)

(* RFC2136Client after the exchange: the send error, or rcode and          *)
(* rcode_name, or the success message                                      *)
ClientExitLog(op, c, fqdn, out) ==
    LET err == ClientError(out) IN
    IF err = NoError
        THEN LogEvent(IF op = "add" THEN "TXT record added successfully"
                      ELSE "TXT record deleted successfully", fqdn, c.server, {}, NoError)
    ELSE IF err.msg = "failed to send DNS update"
        THEN LogEvent(IF op = "add" THEN "Failed to send DNS update"
                      ELSE "Failed to send DNS delete", fqdn, c.server, {}, err)
    ELSE LogEvent(IF op = "add" THEN "DNS update failed" ELSE "DNS delete failed",
                  fqdn, c.server, {err.cause}, err)

(* a goroutine whose failure message leaves the server field out *)
TaskExitLogUnnamed(op, srv, fqdn, err) ==
    IF err # NoError
        THEN LogEvent(IF op = "add" THEN "Failed to add TXT record on server"
                      ELSE "Failed to delete TXT record on server", fqdn, 0, {}, err)
    ELSE LogEvent(IF op = "add" THEN "Successfully added TXT record on server"
                  ELSE "Successfully deleted TXT record on server", fqdn, srv, {}, NoError)

(* the goroutine of the coordinator, after the client call *)
TaskExitLog(op, srv, fqdn, err) ==
    IF err # NoError
        THEN LogEvent(IF op = "add" THEN "Failed to add TXT record on server"
                      ELSE "Failed to delete TXT record on server", fqdn, srv, {}, err)
    ELSE LogEvent(IF op = "add" THEN "Successfully added TXT record on server"
                  ELSE "Successfully deleted TXT record on server", fqdn, srv, {}, NoError)

(* the coordinator after the barrier: the threshold error, or the warning  *)
(* about partial failure and the final message                             *)
ReduceLog(op, fqdn, sc, mgr, errors) ==
    IF op = "add" THEN
        IF AddInsufficient(sc, mgr.minSuccess)
            THEN {LogEvent("Insufficient successful updates", <<>>, 0, {}, NoError)}
        ELSE (IF Len(errors) > 0
              THEN {LogEvent("Some servers failed, but minimum success threshold met",
                             <<>>, 0, {}, NoError)} ELSE {})
             \cup {LogEvent("TXT record added successfully to multiple servers",
                            fqdn, 0, {}, NoError)}
    ELSE
        IF DeleteFailed(sc)
            THEN {LogEvent("Failed to delete TXT record on all servers", <<>>, 0, {}, NoError)}
        ELSE (IF Len(errors) > 0
              THEN {LogEvent("Some servers failed during deletion", <<>>, 0, {}, NoError)}
              ELSE {})
             \cup {LogEvent("TXT record deleted successfully from multiple servers",
                            fqdn, 0, {}, NoError)}

----------------------------------------------------------------------------
(* State *)

NoDoc == [raw |-> "nil", fields |-> NoFields]

NoStore == [names |-> {}, keys |-> {}]

NoReq == [via |-> "none", op |-> "none", fqdn |-> <<>>, key |-> "",
          doc |-> NoDoc, store |-> NoStore]

NoCall == [op |-> "none", fqdn |-> <<>>, value |-> "", ttl |-> 0]

NoSummary == [op |-> "none", name |-> <<>>, n |-> 0, ok |-> FALSE,
              zones |-> [i \in ServerIds |-> [nm \in ZoneNames |-> {}]]]

NoTasks == [i \in ServerIds |-> "none"]

NoOutcomes == [i \in ServerIds |-> NoOutcome]

NothingSent == [i \in ServerIds |-> <<>>]

NoAttempts == [i \in ServerIds |-> 0]

N == Len(m.servers)

(* What belongs to one Present / CleanUp call: its arguments, the          *)
(* coordinator it built, the locals of the coordinator call and of its     *)
(* goroutines, and what it has written and sent so far.                    *)
Frame ==
    [pc |-> pc, req |-> req, m |-> m, call |-> call, launched |-> launched,
     wg |-> wg, task |-> task, outcome |-> outcome, successCount |-> successCount,
     errChan |-> errChan, result |-> result, attempts |-> attempts, sent |-> sent,
     lookups |-> lookups, ctxDone |-> ctxDone, log |-> log]

(* A call that has not started. *)
NoFrame ==
    [pc |-> "idle", req |-> NoReq, m |-> NoManager, call |-> NoCall, launched |-> 0,
     wg |-> 0, task |-> NoTasks, outcome |-> NoOutcomes, successCount |-> 0,
     errChan |-> <<>>, result |-> NoResult, attempts |-> NoAttempts,
     sent |-> NothingSent, lookups |-> 0, ctxDone |-> FALSE, log |-> {}]

(* Room left for a request that fans out to n servers. *)
Admit(n) == spawned + n <= MaxTasks

Init ==
    /\ client = "nil"
    /\ pc = "idle"
    /\ req = NoReq
    /\ m = NoManager
    /\ call = NoCall
    /\ launched = 0
    /\ wg = 0
    /\ task = NoTasks
    /\ outcome = NoOutcomes
    /\ successCount = 0
    /\ errChan = <<>>
    /\ result = NoResult
    /\ attempts = NoAttempts
    /\ sent = NothingSent
    /\ lookups = 0
    /\ ctxDone = FALSE
    /\ zone = [i \in ServerIds |->
                   [nm \in ZoneNames |-> IF nm = OtherName THEN OtherTXT ELSE Preexisting]]
    /\ others = [i \in ServerIds |-> OtherRecords]
    /\ log = {}
    /\ spawned = 0
    /\ prev = [NoSummary EXCEPT !.zones = zone]
    /\ peer = NoFrame

(* kubernetes.NewForConfig succeeded: the client handle is installed. *)
Initialize ==
    /\ pc = "idle"
    /\ client = "nil"
    /\ client' = "kube"
    /\ UNCHANGED <<pc, req, m, launched, wg, task, outcome, successCount,
                   errChan, result, attempts, sent, lookups, ctxDone, zone, call, spawned, prev,
                   others, log>>
    /\ UNCHANGED peer

(* Entry of MultiServerDNS.AddTXTRecord / DeleteTXTRecord: fresh locals. *)
Enter(mgr, c) ==
    /\ m' = mgr
    /\ call' = c
    /\ launched' = 0
    /\ wg' = 0
    /\ successCount' = 0
    /\ errChan' = <<>>
    /\ task' = NoTasks
    /\ outcome' = NoOutcomes
    /\ attempts' = NoAttempts
    /\ sent' = NothingSent
    /\ ctxDone' = FALSE
    /\ result' = NoResult
    /\ pc' = IF Len(mgr.servers) = 0 THEN "wait" ELSE "launch"

(* Present and CleanUp up to the coordinator call. *)
Solve(op, ch, store) ==
    /\ pc = "idle"
    /\ req' = [via |-> "solver", op |-> op, fqdn |-> ch.fqdn, key |-> ch.key,
               doc |-> ch.doc, store |-> store]
    /\ LET parsed == parseConfig(ch.doc)
           config == parsed.config
           sec    == getTSIGSecret(client, store, config.tsigSecretName, config.tsigSecretKey)
       IN  /\ Admit(IF parsed.err = "" /\ sec.err = "" THEN Len(config.servers) ELSE 0)
           /\ IF parsed.err # "" THEN
                  /\ result' = Failure("failed to parse config", parsed.err, <<>>)
                  /\ lookups' = 0
                  /\ pc' = "done"
                  /\ UNCHANGED <<m, call, launched, wg, task, outcome, successCount,
                                 errChan, attempts, sent, ctxDone>>
              ELSE IF sec.err # "" THEN
                  /\ result' = Failure("failed to get TSIG secret", sec.err, <<>>)
                  /\ lookups' = sec.gets
                  /\ pc' = "done"
                  /\ UNCHANGED <<m, call, launched, wg, task, outcome, successCount,
                                 errChan, attempts, sent, ctxDone>>
              ELSE
                  /\ lookups' = sec.gets
                  /\ Enter(NewMultiServerDNS(config.servers, config.zone, config.tsigKeyName,
                                             config.tsigAlgorithm, sec.secret),
                           [op |-> op, fqdn |-> ch.fqdn,
                            value |-> IF op = "add" THEN ch.key ELSE "",
                            ttl |-> IF op = "add" THEN config.ttl ELSE 0])
           /\ log' = IF parsed.err = "" /\ sec.err = ""
                     THEN {SolverEntryLog(op, ch.fqdn, ch.key),
                           CoordinatorEntryLog(op, ch.fqdn, IF op = "add" THEN ch.key ELSE "")}
                     ELSE {SolverEntryLog(op, ch.fqdn, ch.key)}
    /\ UNCHANGED <<client, zone, spawned, prev, others>>
    /\ UNCHANGED peer

Challenges == [fqdn : FQDNs, key : Keys, doc : Docs]

Present == \E ch \in Challenges, store \in Stores : Solve("add", ch, store)

CleanUp == \E ch \in Challenges, store \in Stores : Solve("delete", ch, store)

(* The coordinator used directly: any server list, a context the caller    *)
(* may cancel.                                                             *)
Coordinate(op, n, fqdn, value, ttl) ==
    /\ pc = "idle"
    /\ Admit(n)
    /\ req' = [via |-> "coordinator", op |-> op, fqdn |-> fqdn, key |-> value,
               doc |-> NoDoc, store |-> NoStore]
    /\ lookups' = 0
    /\ Enter(NewMultiServerDNS(ServerList(n), <<"example", "com">>, <<"acme-key">>,
                               <<"hmac-sha256">>, SecretValue),
             [op |-> op, fqdn |-> fqdn, value |-> value, ttl |-> ttl])
    /\ log' = {CoordinatorEntryLog(op, fqdn, value)}
    /\ UNCHANGED <<client, zone, spawned, prev, others>>
    /\ UNCHANGED peer

AddTXTRecord ==
    \E n \in 0..MaxTasks, fqdn \in FQDNs, value \in {"tokenA"} :
        Coordinate("add", n, fqdn, value, DefaultTTL)

DeleteTXTRecord ==
    \E n \in 0..MaxTasks, fqdn \in FQDNs : Coordinate("delete", n, fqdn, "", 0)

(* for _, server := range m.servers { wg.Add(1); go func(srv) ... } *)
Launch ==
    /\ pc = "launch"
    /\ launched < N
    /\ launched' = launched + 1
    /\ wg' = wg + 1
    /\ task' = [task EXCEPT ![launched + 1] = "ready"]
    /\ pc' = IF launched + 1 = N THEN "wait" ELSE "launch"
    /\ spawned' = spawned + 1
    /\ UNCHANGED <<client, req, m, outcome, successCount, errChan, result,
                   attempts, sent, lookups, ctxDone, zone, call, prev, others, log>>
    /\ UNCHANGED peer

(* The caller cancels the context it passed to the coordinator. Present    *)
(* and CleanUp pass context.Background(), which cannot be cancelled.       *)
Cancel ==
    /\ pc \in {"launch", "wait"}
    /\ req.via = "coordinator"
    /\ ~ctxDone
    /\ ctxDone' = TRUE
    /\ UNCHANGED <<client, pc, req, m, launched, wg, task, outcome, successCount,
                   errChan, result, attempts, sent, lookups, zone, call, spawned, prev,
                   others, log>>
    /\ UNCHANGED peer

(* goroutines that all read the loop variable after the loop has moved on *)
ClientForShared(i) == NewRFC2136Client(m.servers[N], m.zone, m.tsigKey, m.tsigAlg, m.tsigSec)

ClientFor(i) == NewRFC2136Client(m.servers[i], m.zone, m.tsigKey, m.tsigAlg, m.tsigSec)

MsgFor(i) == IF call.op = "add"
             THEN AddTXTMsg(ClientFor(i), call.fqdn, call.value, call.ttl)
             ELSE DeleteTXTMsg(ClientFor(i), call.fqdn)

(* The goroutine builds the update and hands it to client.ExchangeContext, *)
(* which puts it on the wire; with a context already cancelled the dial    *)
(* may fail before anything is sent.                                       *)
ClientSend(i) ==
    /\ task[i] = "ready"
    /\ attempts' = [attempts EXCEPT ![i] = @ + 1]
    /\ log' = log \cup {ClientEntryLog(call.op, ClientFor(i), call.fqdn, call.value)}
    /\ \/ /\ task' = [task EXCEPT ![i] = "inflight"]
          /\ sent' = [sent EXCEPT ![ClientFor(i).server] = Append(@, MsgFor(i))]
       \/ /\ ctxDone
          /\ task' = [task EXCEPT ![i] = "aborted"]
          /\ sent' = sent
    /\ UNCHANGED <<client, pc, req, m, launched, wg, outcome, successCount,
                   errChan, result, lookups, ctxDone, zone, call, spawned, prev, others>>
    /\ UNCHANGED peer

(* Outcomes ExchangeContext can have for the goroutine of servers[i]: a    *)
(* reply with some RCODE, or an error. The call is bounded by the client's *)
(* 10 s timeout; nothing in the client or the coordinator selects on       *)
(* ctx.Done(), so after a cancellation the exchange may end with a context *)
(* error or may still deliver the server's reply.                          *)
Outcomes(i) ==
    IF task[i] = "aborted" THEN {ExchangeErr("context canceled")}
    ELSE { Reply(rc) : rc \in Rcodes } \cup {ExchangeErr("i/o timeout"), LostReply}
         \cup (IF ctxDone THEN {ExchangeErr("context canceled")} ELSE {})

(* The same with every RCODE and every state of the reply's TSIG record. *)
AllOutcomes(i) ==
    Outcomes(i) \cup
    (IF task[i] = "aborted" THEN {}
     ELSE { ReplyTsig(rc, t) : rc \in AllRcodes, t \in TsigStates }
          \cup { Truncated(rc) : rc \in AllRcodes })

(* a goroutine that calls the client again after an error *)
TaskRetryOnError(err) == IF err THEN "ready" ELSE "done"

(* The goroutine makes one client call and ends, whatever the call returned. *)
TaskAfterReturn(err) == "done"

(* ExchangeContext returns; the client maps the reply to its result, the   *)
(* goroutine records it (errChan <- err, or successCount++ under mu) and   *)
(* runs the deferred wg.Done().                                            *)
ClientReturn(i, out) ==
    /\ task[i] \in {"inflight", "aborted"}
    /\ out \in AllOutcomes(i)
    /\ LET err == ClientError(out)
           srv == ClientFor(i).server
           applied == Applied(out)
       IN  /\ outcome' = [outcome EXCEPT ![i] = out]
           /\ zone' = IF applied
                      THEN [zone EXCEPT ![srv] = ServerApply(@, sent[srv][Len(sent[srv])])]
                      ELSE zone
           /\ others' = IF applied
                        THEN [others EXCEPT ![srv] = ServerApplyOthers(@, sent[srv][Len(sent[srv])])]
                        ELSE others
           /\ log' = log \cup {ClientExitLog(call.op, ClientFor(i), call.fqdn, out),
                                TaskExitLog(call.op, srv, call.fqdn, err)}
           /\ IF err # NoError
              THEN /\ Len(errChan) < ErrChanCap(N)
                   /\ errChan' = Append(errChan, ServerError(srv, err))
                   /\ successCount' = successCount
              ELSE /\ successCount' = CountSuccess(successCount)
                   /\ errChan' = errChan
           /\ task' = [task EXCEPT ![i] = TaskAfterReturn(err # NoError)]
           /\ wg' = IF TaskAfterReturn(err # NoError) = "done" THEN wg - 1 ELSE wg
    /\ UNCHANGED <<client, pc, req, m, launched, result, attempts, sent, lookups,
                   ctxDone, call, spawned, prev>>
    /\ UNCHANGED peer

(* wg.Wait() returns, the channel is closed and drained, the threshold is  *)
(* applied and the operation returns (through Present / CleanUp when the   *)
(* solver made the call).                                                  *)
Reduce ==
    /\ pc = "wait"
    /\ WaitReturns(wg)
    /\ LET errors == CollectErrors(errChan)
           r == CoordinatorResult(call.op, successCount, m, errors)
       IN  /\ result' = IF req.via = "solver" THEN SolverResult(call.op, r) ELSE r
           /\ log' = log \cup ReduceLog(call.op, call.fqdn, successCount, m, errors)
                         \cup (IF req.via = "solver" /\ r.ok
                               THEN {SolverExitLog(call.op, call.fqdn)} ELSE {})
    /\ pc' = "done"
    /\ UNCHANGED <<client, req, m, launched, wg, task, outcome, successCount,
                   errChan, attempts, sent, lookups, ctxDone, zone, call, spawned, prev,
                   others>>
    /\ UNCHANGED peer

Summary == [op |-> call.op, name |-> Fqdn(call.fqdn), n |-> N, ok |-> result.ok,
            zones |-> zone]

(* a solver that keeps the coordinator of the last request in a field *)
ReturnKeepsManager ==
    /\ pc = "done"
    /\ prev' = IF N > 0 THEN Summary ELSE prev
    /\ pc' = "idle"
    /\ req' = NoReq
    /\ call' = NoCall
    /\ launched' = 0
    /\ wg' = 0
    /\ task' = NoTasks
    /\ outcome' = NoOutcomes
    /\ errChan' = <<>>
    /\ result' = NoResult
    /\ attempts' = NoAttempts
    /\ sent' = NothingSent
    /\ lookups' = 0
    /\ ctxDone' = FALSE
    /\ log' = {}
    /\ UNCHANGED <<client, zone, spawned, others, m, successCount>>
    /\ UNCHANGED peer

(* The call has returned; its locals and the coordinator are gone. *)
Return ==
    /\ pc = "done"
    /\ prev' = IF N > 0 THEN Summary ELSE prev
    /\ pc' = "idle"
    /\ req' = NoReq
    /\ m' = NoManager
    /\ call' = NoCall
    /\ launched' = 0
    /\ wg' = 0
    /\ task' = NoTasks
    /\ outcome' = NoOutcomes
    /\ successCount' = 0
    /\ errChan' = <<>>
    /\ result' = NoResult
    /\ attempts' = NoAttempts
    /\ sent' = NothingSent
    /\ lookups' = 0
    /\ ctxDone' = FALSE
    /\ log' = {}
    /\ UNCHANGED <<client, zone, spawned, others>>
    /\ UNCHANGED peer

Next ==
    \/ Initialize
    \/ Present
    \/ CleanUp
    \/ AddTXTRecord
    \/ DeleteTXTRecord
    \/ Launch
    \/ Cancel
    \/ \E i \in ServerIds : ClientSend(i)
    \/ \E i \in ServerIds : \E out \in Outcomes(i) : ClientReturn(i, out)
    \/ Reduce
    \/ Return

Spec == Init /\ [][Next]_vars

(* The Go scheduler runs every runnable goroutine: the loop goes on        *)
(* launching, every goroutine makes its client call, and the call returns  *)
(* (client.Timeout bounds the exchange at 10 s), after which the goroutine *)
(* reports and the waiting caller resumes.                                 *)
Fairness ==
    /\ WF_vars(Launch)
    /\ \A i \in ServerIds : WF_vars(ClientSend(i))
    /\ \A i \in ServerIds : WF_vars(\E out \in Outcomes(i) : ClientReturn(i, out))
    /\ WF_vars(Reduce)

FairSpec == Spec /\ Fairness

----------------------------------------------------------------------------
(* The solver in front of a single server, over the wider inputs and with  *)
(* every kind of reply.                                                    *)

SingleChallenges == [fqdn : WideFQDNs, key : {"tokenA"}, doc : SingleDocs]

PresentSingle ==
    \E ch \in SingleChallenges, store \in SingleStores : Solve("add", ch, store)

CleanUpSingle ==
    \E ch \in SingleChallenges, store \in SingleStores : Solve("delete", ch, store)

AddTXTSingle ==
    \E n \in 0..1, fqdn \in WideFQDNs : Coordinate("add", n, fqdn, "tokenA", DefaultTTL)

DeleteTXTSingle ==
    \E n \in 0..1, fqdn \in WideFQDNs : Coordinate("delete", n, fqdn, "", 0)

SingleNext ==
    \/ Initialize
    \/ PresentSingle
    \/ CleanUpSingle
    \/ AddTXTSingle
    \/ DeleteTXTSingle
    \/ Launch
    \/ Cancel
    \/ \E i \in ServerIds : ClientSend(i)
    \/ \E i \in ServerIds : \E out \in AllOutcomes(i) : ClientReturn(i, out)
    \/ Reduce
    \/ Return

SingleSpec == Init /\ [][SingleNext]_vars

----------------------------------------------------------------------------
(* Two Present / CleanUp calls running at the same time on one solver.     *)
(* The variables hold the locals of the call whose goroutines take the     *)
(* next step and peer holds the other call's; the scheduler may pass from  *)
(* one call to the other between any two steps. The solver's client        *)
(* handle and the servers' zones are the same for both.                    *)

(* a coordinator that keeps its success counter in a package-level         *)
(* variable: the count does not belong to the call                         *)
SwitchSharedCounter ==
    /\ pc # "idle" \/ peer.pc # "idle"
    /\ peer' = Frame
    /\ pc' = peer.pc
    /\ req' = peer.req
    /\ m' = peer.m
    /\ call' = peer.call
    /\ launched' = peer.launched
    /\ wg' = peer.wg
    /\ task' = peer.task
    /\ outcome' = peer.outcome
    /\ successCount' = successCount
    /\ errChan' = peer.errChan
    /\ result' = peer.result
    /\ attempts' = peer.attempts
    /\ sent' = peer.sent
    /\ lookups' = peer.lookups
    /\ ctxDone' = peer.ctxDone
    /\ log' = peer.log
    /\ UNCHANGED <<client, zone, spawned, prev, others>>

(* The other call's goroutines run next. Every local of a call, the        *)
(* coordinator, successCount and errChan included, is its own.             *)
Switch ==
    /\ pc # "idle" \/ peer.pc # "idle"
    /\ peer' = Frame
    /\ pc' = peer.pc
    /\ req' = peer.req
    /\ m' = peer.m
    /\ call' = peer.call
    /\ launched' = peer.launched
    /\ wg' = peer.wg
    /\ task' = peer.task
    /\ outcome' = peer.outcome
    /\ successCount' = peer.successCount
    /\ errChan' = peer.errChan
    /\ result' = peer.result
    /\ attempts' = peer.attempts
    /\ sent' = peer.sent
    /\ lookups' = peer.lookups
    /\ ctxDone' = peer.ctxDone
    /\ log' = peer.log
    /\ UNCHANGED <<client, zone, spawned, prev, others>>

(* deployments of one or two servers *)
PairDocs == { d \in ValidDocs : Len(d.fields.servers) <= 2 }

PairChallenges ==
    [fqdn : {<<"_acme-challenge", "app", "example", "com">>}, key : {"tokenA"},
     doc : PairDocs]

PairStores == {[names |-> {"tsig-secret"}, keys |-> {"secret"}]}

PresentPair == \E ch \in PairChallenges, store \in PairStores : Solve("add", ch, store)

CleanUpPair == \E ch \in PairChallenges, store \in PairStores : Solve("delete", ch, store)

(* the answers of the servers in this setting: NOERROR, or none in time *)
PairOutcomes(i) == Outcomes(i) \cap {Reply(RcodeSuccess), ExchangeErr("i/o timeout")}

PairNext ==
    \/ Initialize
    \/ PresentPair
    \/ CleanUpPair
    \/ Launch
    \/ \E i \in ServerIds : ClientSend(i)
    \/ \E i \in ServerIds : \E out \in PairOutcomes(i) : ClientReturn(i, out)
    \/ Reduce
    \/ Return
    \/ Switch

PairSpec == Init /\ [][PairNext]_vars

----------------------------------------------------------------------------
(* Properties *)

(* Servers of the current call whose client call was answered NOERROR, and *)
(* those whose client call ended any other way.                            *)
Succeeded == { i \in 1..N : outcome[i] = Reply(RcodeSuccess) }

Failed == { i \in 1..N : outcome[i] # NoOutcome /\ outcome[i] # Reply(RcodeSuccess) }

Returned(op) == pc = "done" /\ call.op = op

CoordinatorReturned == pc = "done" /\ call.op # "none"

(* The coordinator's own error, seen through the wrapping of Present/CleanUp. *)
CoordinatorErr == IF req.via = "solver" THEN result.detail ELSE result.err

Name == Fqdn(call.fqdn)

(* The cause the client reports for an exchange that ended with out. *)
CauseOf(out) == IF out.kind \in {"error", "lost"} THEN out.cause
                ELSE RcodeToString(out.rcode)

(* C1: for every N >= 1 and every combination of per-server outcomes, Add  *)
(* returns ok iff at least floor(N/2)+1 servers succeeded, and otherwise   *)
(* the quorum-not-met error.                                               *)
C1_AddQuorum ==
    (Returned("add") /\ N >= 1) =>
        /\ result.ok <=> Cardinality(Succeeded) >= (N \div 2) + 1
        /\ ~result.ok => CoordinatorErr = "insufficient successful updates"

C1_Witness ==
    Returned("add") /\ N = 3 /\ Cardinality(Succeeded) = 2 /\ result.ok

(* C2: for every N >= 1, Delete returns ok iff at least one server         *)
(* succeeded, whatever the majority threshold is.                          *)
C2_DeleteAtLeastOne ==
    (Returned("delete") /\ N >= 1) =>
        /\ result.ok <=> Succeeded # {}
        /\ ~result.ok => CoordinatorErr = "failed to delete on all servers"

C2_Witness ==
    /\ Returned("delete") /\ N = 3 /\ Cardinality(Succeeded) = 1
    /\ Cardinality(Succeeded) < m.minSuccess
    /\ result.ok

(* C3: the coordinator returns only after a task was launched for every    *)
(* configured server and every task has completed.                         *)
C3_NoEarlyExit ==
    CoordinatorReturned =>
        /\ launched = N
        /\ wg = 0
        /\ \A i \in 1..N : task[i] = "done" /\ outcome[i] # NoOutcome

(* two servers failed, so the threshold of 2 was out of reach, and the     *)
(* third was still carried through                                         *)
C3_Witness ==
    /\ Returned("add") /\ N = 3 /\ ~result.ok
    /\ Cardinality(Failed) = 2 /\ Cardinality(Succeeded) = 1

(* C4: a Present or CleanUp whose configuration document is absent, empty, *)
(* malformed, has no servers or lacks a required field returns an error    *)
(* with no secret lookup made and no DNS message sent.                     *)
C4_InvalidConfigNoIO ==
    (req.via = "solver" /\ req.doc \in InvalidDocs) =>
        /\ pc = "done"
        /\ ~result.ok
        /\ result.err = "failed to parse config"
        /\ lookups = 0
        /\ call = NoCall
        /\ attempts = NoAttempts
        /\ sent = NothingSent

C4_Witness ==
    /\ pc = "done" /\ req.via = "solver" /\ req.op = "delete"
    /\ req.doc.raw = "json" /\ "tsigKeyName" \notin DOMAIN req.doc.fields
    /\ client = "kube" /\ req.store = [names |-> {"tsig-secret"}, keys |-> {"secret"}]
    /\ ~result.ok /\ lookups = 0

(* C5: an error returned by the coordinator lists exactly the servers      *)
(* whose call failed, once each, each with its cause.                      *)
C5_AggregateNamesFailures ==
    (CoordinatorReturned /\ ~result.ok) =>
        LET errors == result.errors IN
        /\ Len(errors) = N - Cardinality(Succeeded)
        /\ \A i \in 1..N : outcome[i] # Reply(RcodeSuccess) =>
               \E k \in DOMAIN errors :
                   /\ errors[k].server = m.servers[i]
                   /\ errors[k].err.cause = CauseOf(outcome[i])
        /\ \A k \in DOMAIN errors :
               \E i \in Failed : errors[k].server = m.servers[i]
        /\ \A k1, k2 \in DOMAIN errors :
               errors[k1].server = errors[k2].server => k1 = k2

C5_Witness ==
    /\ Returned("add") /\ N = 3 /\ ~result.ok
    /\ \E i, j \in Failed : outcome[i] = Refused
                            /\ outcome[j] = ExchangeErr("i/o timeout")
    /\ Cardinality(Succeeded) = 1
    /\ Len(result.errors) = 2

SecretNameOf(doc) == doc.fields.tsigSecretName

SecretKeyOf(doc) == IF "tsigSecretKey" \in DOMAIN doc.fields
                    THEN doc.fields.tsigSecretKey ELSE "secret"

(* C6: when the solver has no platform client, or the named secret does    *)
(* not exist, or the key is missing from it, Present and CleanUp return an *)
(* error, no coordinator runs and nothing is sent; not-found and           *)
(* key-missing are different errors.                                       *)
C6_SecretFailureNoDNS ==
    LET notInit    == client = "nil"
        notFound   == SecretNameOf(req.doc) \notin req.store.names
        keyMissing == SecretKeyOf(req.doc) \notin req.store.keys
    IN  (req.via = "solver" /\ req.doc \in ValidDocs
         /\ (notInit \/ notFound \/ keyMissing)) =>
            /\ pc = "done"
            /\ ~result.ok
            /\ result.err = "failed to get TSIG secret"
            /\ result.detail = IF notInit THEN "kubernetes client not initialized"
                               ELSE IF notFound THEN "failed to get secret"
                               ELSE "key not found in secret"
            /\ m = NoManager
            /\ call = NoCall
            /\ attempts = NoAttempts
            /\ sent = NothingSent

C6_Witness ==
    /\ pc = "done" /\ req.via = "solver" /\ req.op = "add" /\ req.doc \in ValidDocs
    /\ client = "kube" /\ req.store = [names |-> {"tsig-secret"}, keys |-> {}]
    /\ result.detail = "key not found in secret"
    /\ sent = NothingSent

(* C7: within one coordinator call every configured server gets exactly    *)
(* one client call and at most one message, whatever the outcomes.         *)
C7_OneAttemptPerServer ==
    /\ \A i \in ServerIds : attempts[i] <= 1 /\ Len(sent[i]) <= attempts[i]
    /\ \A i \in ServerIds : i > N => attempts[i] = 0
    /\ CoordinatorReturned => \A i \in 1..N : attempts[i] = 1

C7_Witness ==
    /\ Returned("add") /\ N = 3 /\ ~result.ok /\ Succeeded = {}
    /\ \A i \in 1..N : attempts[i] = 1 /\ Len(sent[i]) = 1

(* C8: during an Add no delete is sent to any server, and every server     *)
(* that accepted the add holds the record, also when the Add fails.        *)
C8_NoCompensation ==
    call.op = "add" =>
        /\ \A i \in ServerIds : \A k \in DOMAIN sent[i] :
               sent[i][k].update[1].class = "IN"
        /\ \A i \in Succeeded : call.value \in zone[m.servers[i]][Name]

C8_Witness ==
    /\ Returned("add") /\ N = 3 /\ ~result.ok
    /\ \E i \in Succeeded : call.value \in zone[m.servers[i]][Name]

(* C9: once the caller's context is cancelled, every task in flight ends   *)
(* with a cancellation error and is not counted as a success.              *)
C9_CancelAbortsInFlight ==
    [][\A i \in ServerIds :
          (ctxDone /\ task[i] = "inflight" /\ task'[i] = "done") =>
              /\ outcome'[i] = ExchangeErr("context canceled")
              /\ successCount' = successCount]_vars

(* C10: against one server that applies what it acknowledges, an Add       *)
(* followed by a Delete of the same name leaves no TXT record at the name. *)
C10_RoundTrip ==
    (/\ Returned("delete") /\ N = 1
     /\ prev.op = "add" /\ prev.n = 1 /\ prev.name = Name
     /\ outcome[1] = Reply(RcodeSuccess)) =>
        /\ zone[m.servers[1]][Name] = {}
        /\ result.ok

C10_Witness ==
    /\ Returned("delete") /\ N = 1 /\ result.ok
    /\ prev.op = "add" /\ prev.n = 1 /\ prev.ok /\ prev.name = Name
    /\ prev.zones[m.servers[1]][Name] = {"old", "tokenB"}
    /\ zone[m.servers[1]][Name] = {}

(* The errors the goroutine of servers[i] has put on the channel. *)
ErrorsOf(i) == { k \in DOMAIN errChan : errChan[k].server = m.servers[i] }

(* The exchange gave the client a reply and no error. *)
ReplyAccepted(out) ==
    out.kind = "reply" /\ out.tsig \notin {"badsig", "badkey", "badtime"}

(* C11: a single-server call succeeds iff a reply was received and         *)
(* accepted and its RCODE is 0; a reply with any other RCODE gives a       *)
(* failure that carries the numeric code and its mnemonic; the call is     *)
(* made once.                                                              *)
C11_RcodeDecides ==
    \A i \in 1..N : task[i] = "done" =>
        LET out == outcome[i] IN
        /\ ErrorsOf(i) = {} <=> (ReplyAccepted(out) /\ out.rcode = 0)
        /\ (ReplyAccepted(out) /\ out.rcode # 0) =>
               \A k \in ErrorsOf(i) :
                   /\ errChan[k].err.msg = "DNS update failed"
                   /\ errChan[k].err.rcode = out.rcode
                   /\ errChan[k].err.cause =
                          (CASE out.rcode = 5 -> "REFUSED" [] out.rcode = 8 -> "NXRRSET"
                             [] out.rcode = 9 -> "NOTAUTH")
        /\ Cardinality(ErrorsOf(i)) <= 1
        /\ attempts[i] = 1
        /\ Len(sent[m.servers[i]]) <= 1

C11_Witness ==
    /\ pc = "done" /\ N = 1 /\ req.via = "solver" /\ ~result.ok
    /\ outcome[1] = Reply(9)
    /\ errChan = <<ServerError(m.servers[1],
                     [msg |-> "DNS update failed", cause |-> "NOTAUTH", rcode |-> 9])>>
    /\ attempts[1] = 1

(* C12: a reply counts as a success only if its TSIG record verifies: a    *)
(* reply with RCODE 0 whose TSIG record is missing, has a wrong MAC or key *)
(* name, or lies outside the fudge window counts as a failure.             *)
C12_SuccessNeedsValidTsig ==
    \A i \in 1..N :
        (task[i] = "done" /\ outcome[i].kind = "reply" /\ outcome[i].tsig # "valid") =>
            ErrorsOf(i) # {}

(* C13: a Delete sends the delete-RRset update for the name (type TXT,     *)
(* class ANY, ttl 0, no rdata); on a server that applies it no TXT record  *)
(* is left at the name, whoever published it, and the records at other    *)
(* names and of other types are as they were before the call.              *)
C13_DeleteRRsetFrame ==
    call.op = "delete" =>
        /\ \A a \in ServerIds : \A k \in DOMAIN sent[a] :
               sent[a][k].update =
                   <<[name |-> Name, type |-> "TXT", class |-> "ANY",
                      ttl |-> [hi |-> 0, lo |-> 0], txt |-> <<>>]>>
        /\ \A i \in 1..N :
               (task[i] = "done" /\ outcome[i].kind = "reply" /\ outcome[i].rcode = 0) =>
                   LET a == m.servers[i] IN
                   /\ zone[a][Name] = {}
                   /\ \A nm \in ZoneNames \ {Name} : zone[a][nm] = prev.zones[a][nm]
                   /\ others[a] = OtherRecords

(* two Presents with different keys, then the CleanUp of one of them *)
C13_Witness ==
    /\ Returned("delete") /\ N = 1 /\ req.via = "solver" /\ outcome[1] = Reply(RcodeSuccess)
    /\ prev.zones[m.servers[1]][Name] = {"old", "tokenA", "tokenB"}
    /\ zone[m.servers[1]][Name] = {}
    /\ zone[m.servers[1]][OtherName] = OtherTXT
    /\ [name |-> Name, type |-> "CAA"] \in others[m.servers[1]]

(* The strings a log event carries, and the strings of a returned error. *)
LogStrings(e) == e.strs \cup {e.err.msg, e.err.cause}

ErrorStrings(r) ==
    {r.err, r.detail}
    \cup UNION { {r.errors[k].err.msg, r.errors[k].err.cause} : k \in DOMAIN r.errors }

(* C14: the TSIG secret is in no log event and in no error, whether the    *)
(* request succeeds, fails on its configuration or secret, on transport,   *)
(* on a rejected update or on the threshold.                               *)
C14_SecretNeverExposed ==
    /\ \A e \in log : SecretValue \notin LogStrings(e)
    /\ \A k \in DOMAIN errChan :
           SecretValue \notin {errChan[k].err.msg, errChan[k].err.cause}
    /\ SecretValue \notin ErrorStrings(result)

(* the secret was read and handed to three clients; one update was         *)
(* refused, one timed out, the threshold was missed                        *)
C14_Witness ==
    /\ Returned("add") /\ req.via = "solver" /\ N = 3 /\ ~result.ok
    /\ m.tsigSec = SecretValue
    /\ \E i, j \in Failed : outcome[i] = Refused /\ outcome[j] = ExchangeErr("i/o timeout")
    /\ \E e \in log : e.msg = "DNS update failed" /\ e.strs = {"REFUSED"}
    /\ \E e \in log : e.msg = "Failed to send DNS update" /\ e.err.cause = "i/o timeout"
    /\ \E e \in log : e.msg = "Insufficient successful updates"

(* C15: the challenge key is in no log event written by Present, CleanUp,  *)
(* the coordinator or the client.                                          *)
C15_KeyNeverLogged ==
    \A e \in log : req.key \notin e.strs

(* C16: the algorithm, the secret key and the ttl the request works with   *)
(* are the document's where the document has the field, and hmac-sha256,   *)
(* "secret" and 60 where it has not; a ttl of 0 in the document stays 0.   *)
C16_DefaultsOnlyWhenAbsent ==
    (req.via = "solver" /\ req.doc \in SingleDocs /\ client = "kube") =>
        LET f   == req.doc.fields
            key == IF "tsigSecretKey" \in DOMAIN f THEN f.tsigSecretKey ELSE "secret"
        IN  IF key \notin req.store.keys
            THEN pc = "done" /\ result.detail = "key not found in secret"
            ELSE /\ call.op = req.op
                 /\ m.tsigAlg = IF "tsigAlgorithm" \in DOMAIN f
                                THEN f.tsigAlgorithm ELSE <<"hmac-sha256">>
                 /\ req.op = "add" =>
                        call.ttl = IF "ttl" \in DOMAIN f THEN f.ttl ELSE 60

(* a document with ttl 0 and its own algorithm and key: the add is sent    *)
(* with ttl 0                                                              *)
C16_Witness ==
    /\ Returned("add") /\ req.via = "solver" /\ N = 1
    /\ "ttl" \in DOMAIN req.doc.fields /\ req.doc.fields.ttl = 0
    /\ "tsigSecretKey" \in DOMAIN req.doc.fields
    /\ "tsigAlgorithm" \notin DOMAIN req.doc.fields
    /\ call.ttl = 0 /\ m.tsigAlg = <<"hmac-sha256">>
    /\ Len(sent[1]) = 1 /\ sent[1][1].update[1].ttl = [hi |-> 0, lo |-> 0]

IsSuffix(z, nm) ==
    Len(z) <= Len(nm) /\ SubSeq(nm, Len(nm) - Len(z) + 1, Len(nm)) = z

(* C17: the record of every update put on the wire lies within the         *)
(* configured zone: its normalised name has the normalised zone as a       *)
(* suffix, so a request for a name outside the zone sends nothing.         *)
C17_ZoneInvariant ==
    \A a \in ServerIds : \A k \in DOMAIN sent[a] :
        IsSuffix(sent[a][k].zone.name, sent[a][k].update[1].name)

(* C18: Present sends adds and CleanUp sends deletes, one message to each  *)
(* configured server and to no other, every message for the request's      *)
(* fqdn (normalised), key and configured ttl, under the configured zone    *)
(* and key name, signed with the secret that was read.                     *)
C18_DispatchMatchesRequest ==
    (req.via = "solver" /\ call # NoCall) =>
        LET cfg     == req.doc.fields
            servers == Range(cfg.servers)
            ttl     == IF "ttl" \in DOMAIN cfg THEN cfg.ttl ELSE 60
            alg     == IF "tsigAlgorithm" \in DOMAIN cfg
                       THEN cfg.tsigAlgorithm ELSE <<"hmac-sha256">>
            rr      == IF req.op = "add"
                       THEN [name |-> Fqdn(req.fqdn), type |-> "TXT", class |-> "IN",
                             ttl |-> [hi |-> 0, lo |-> ttl], txt |-> <<req.key>>]
                       ELSE [name |-> Fqdn(req.fqdn), type |-> "TXT", class |-> "ANY",
                             ttl |-> [hi |-> 0, lo |-> 0], txt |-> <<>>]
        IN  /\ \A a \in ServerIds :
                   /\ Len(sent[a]) <= 1
                   /\ a \notin servers => sent[a] = <<>>
                   /\ \A k \in DOMAIN sent[a] :
                          /\ sent[a][k].update = <<rr>>
                          /\ sent[a][k].zone.name = Fqdn(cfg.zone)
                          /\ sent[a][k].tsig.key = cfg.tsigKeyName
                          /\ sent[a][k].tsig.alg = alg
            /\ m.tsigSec = SecretValue
            /\ pc = "done" => \A a \in servers : Len(sent[a]) = 1

C18_Witness ==
    /\ Returned("add") /\ req.via = "solver" /\ req.key = "tokenB" /\ N = 3
    /\ ~IsFqdn(req.fqdn)
    /\ \A a \in 1..3 :
           /\ Len(sent[a]) = 1
           /\ sent[a][1].update[1].txt = <<"tokenB">>
           /\ sent[a][1].update[1].name = Fqdn(req.fqdn)

(* C19: what the coordinator returns is a function of which servers        *)
(* succeeded and which failed: the verdict follows from the set of         *)
(* successes, and the failing servers named in the error are the servers   *)
(* that failed, each with its own error, in whatever order the tasks ran   *)
(* and completed.                                                          *)
C19_OrderIndependent ==
    CoordinatorReturned =>
        /\ result.ok = IF call.op = "add" THEN 2 * Cardinality(Succeeded) > N
                       ELSE Succeeded # {}
        /\ ~result.ok =>
               { result.errors[k] : k \in DOMAIN result.errors }
                   = { ServerError(m.servers[i], ClientError(outcome[i])) : i \in Failed }

(* the third server failed before the first one did *)
C19_Witness ==
    /\ Returned("add") /\ N = 3 /\ ~result.ok /\ Failed = {1, 3}
    /\ result.errors[1].server = m.servers[3]
    /\ result.errors[2].server = m.servers[1]

(* C20: a goroutine can always report what its client call returned (the   *)
(* channel has room for every error that can still come), the barrier is   *)
(* down to zero exactly when all N goroutines have reported, and under     *)
(* fair scheduling every call that reached the coordinator returns.        *)
C20_EventuallyReturns ==
    /\ [](\A i \in 1..N : task[i] \in {"inflight", "aborted"} =>
              \A out \in Outcomes(i) : ENABLED ClientReturn(i, out))
    /\ [](/\ Len(errChan) <= N
          /\ wg = Cardinality({ i \in 1..N : task[i] \in {"ready", "inflight", "aborted"} })
          /\ Len(errChan) + successCount = Cardinality({ i \in 1..N : task[i] = "done" }))
    /\ (pc \in {"launch", "wait"}) ~> (pc = "done")

(* all three calls failed: the channel was filled to its capacity *)
C20_Witness ==
    /\ pc = "done" /\ N = 3 /\ Len(errChan) = 3 /\ wg = 0 /\ successCount = 0
    /\ \A i \in 1..3 : task[i] = "done"

Holders == { i \in 1..N : call.value \in zone[m.servers[i]][Name] }

C23_FailedServersKeepRecords ==
    (Returned("delete") /\ result.ok) =>
        /\ \E i \in 1..N : zone[m.servers[i]][Name] = {}
        /\ \A i \in Succeeded : zone[m.servers[i]][Name] = {}
        /\ \A i \in Failed : zone[m.servers[i]] = prev.zones[m.servers[i]]

(* C23, amended: when a Delete returns ok, some server holds no TXT record *)
(* at the name and every server that answered NOERROR holds none, also     *)
(* one whose answer did not reach the client and whose call therefore      *)
(* failed; every other server whose call failed holds what it held before. *)
C23_DeleteLeavesOthers ==
    (Returned("delete") /\ result.ok) =>
        /\ \E i \in 1..N : zone[m.servers[i]][Name] = {}
        /\ \A i \in Succeeded : zone[m.servers[i]][Name] = {}
        /\ \A i \in Failed :
               IF outcome[i].kind = "lost"
               THEN zone[m.servers[i]] = [prev.zones[m.servers[i]] EXCEPT ![Name] = {}]
               ELSE zone[m.servers[i]] = prev.zones[m.servers[i]]

(* one of three servers deleted, two refused and keep their records *)
C23_Witness ==
    /\ Returned("delete") /\ req.via = "solver" /\ N = 3 /\ result.ok
    /\ Cardinality(Succeeded) = 1
    /\ \A i \in Failed : outcome[i] = Refused /\ zone[m.servers[i]][Name] # {}
    /\ Cardinality(Failed) = 2

(* C24: on a server that applies an Add, the TXT values already at the     *)
(* name stay and the new value joins them; nothing else changes. Two       *)
(* Presents for one name with different keys leave both values.            *)
C24_AddKeepsExisting ==
    call.op = "add" =>
        \A i \in 1..N :
            (task[i] = "done" /\ outcome[i].kind \in {"reply", "lost"}
             /\ outcome[i].rcode = 0) =>
                LET a == m.servers[i] IN
                /\ zone[a] = [prev.zones[a] EXCEPT ![Name] = @ \cup {call.value}]
                /\ prev.zones[a][Name] \subseteq zone[a][Name]
                /\ others[a] = OtherRecords

(* the second of two Presents, with the other key, and no CleanUp between *)
C24_Witness ==
    /\ Returned("add") /\ req.via = "solver" /\ N = 1 /\ result.ok
    /\ prev.op = "add" /\ prev.ok /\ prev.name = Name
    /\ call.value = "tokenB"
    /\ prev.zones[m.servers[1]][Name] = {"old", "tokenA"}
    /\ zone[m.servers[1]][Name] = {"old", "tokenA", "tokenB"}

(* C25: a UDP reply with the TC bit set is never the result of the call:   *)
(* the update is repeated over TCP and the TCP exchange decides.           *)
C25_TruncatedNeverFinal ==
    \A i \in 1..N :
        (task[i] = "done" /\ outcome[i].kind = "reply") => ~outcome[i].tc

(* C26: the key name and the algorithm in the TSIG record of every         *)
(* message sent are in FQDN form, however they were configured.            *)
C26_TsigNamesFqdn ==
    \A a \in ServerIds : \A k \in DOMAIN sent[a] :
        IsFqdn(sent[a][k].tsig.key) /\ IsFqdn(sent[a][k].tsig.alg)

(* The name with a root dot at its end. *)
Dotted(nm) == IF nm # <<>> /\ nm[Len(nm)] = "." THEN nm ELSE nm \o <<".">>

C28_TtlNonNegative ==
    (req.via = "solver" /\ req.op = "add") =>
        \A a \in ServerIds : \A k \in DOMAIN sent[a] :
            LET cfg == req.doc.fields
                ttl == IF "ttl" \in DOMAIN cfg THEN cfg.ttl ELSE 60
            IN  /\ ttl >= 0
                /\ sent[a][k].update[1].ttl = [hi |-> 0, lo |-> ttl]

(* The classes of failure the client's errors tell apart. *)
ErrClass(err) == IF err.msg = "failed to send DNS update" THEN "send"
                 ELSE IF err.msg = "DNS update failed" THEN "rejected"
                 ELSE "none"

(* C29: a failure is reported as an authentication failure when the        *)
(* reply's TSIG does not verify or its RCODE is NOTAUTH, as a rejection    *)
(* for any other non-zero RCODE, as a cancellation when the context fired, *)
(* and as a send failure otherwise.                                        *)
C29_FailureClassified ==
    \A i \in 1..N : \A k \in ErrorsOf(i) :
        LET out == outcome[i]
            cls == ErrClass(errChan[k].err)
        IN  IF out.kind = "reply" /\ out.tsig \in {"badsig", "badkey", "badtime"}
                THEN cls = "auth"
            ELSE IF out.kind = "reply" /\ out.rcode = 9 THEN cls = "auth"
            ELSE IF out.kind = "reply" THEN cls = "rejected"
            ELSE IF out.cause = "context canceled" THEN cls = "canceled"
            ELSE cls = "send"

(* C30: the client handle changes only when Initialize installs it and is  *)
(* the same after every request; the coordinator's servers, zone, key      *)
(* name, algorithm, secret and threshold do not change while it runs an    *)
(* operation; between requests nothing of the last request is left: no     *)
(* coordinator, configuration, secret lookup, success count, error or      *)
(* result.                                                                 *)
C30_NoRetainedState ==
    /\ [][client' # client =>
              (pc = "idle" /\ pc' = "idle" /\ client = "nil" /\ client' = "kube")]_vars
    /\ [][(pc \in {"launch", "wait"} /\ pc' \in {"launch", "wait", "done"}) =>
              m' = m]_vars
    /\ [](pc = "idle" =>
              /\ m = NoManager /\ req = NoReq /\ call = NoCall
              /\ successCount = 0 /\ errChan = <<>> /\ result = NoResult
              /\ lookups = 0 /\ launched = 0 /\ wg = 0 /\ log = {})

(* back at rest after a Present that reached two servers and a failed one  *)
C30_Witness ==
    /\ pc = "idle" /\ client = "kube"
    /\ prev.op = "add" /\ prev.ok /\ prev.n = 3
    /\ m = NoManager /\ successCount = 0 /\ errChan = <<>>
    /\ \E a \in ServerIds : "tokenA" \in zone[a][prev.name]
    /\ \E a \in ServerIds : "tokenA" \notin zone[a][prev.name]

(* The messages a goroutine of the coordinator logs after its client call. *)
TaskFailedMsgs == {"Failed to add TXT record on server",
                   "Failed to delete TXT record on server"}

TaskSucceededMsgs == {"Successfully added TXT record on server",
                      "Successfully deleted TXT record on server"}

TaskEvents(srv) ==
    { e \in log : e.server = srv /\ e.msg \in TaskFailedMsgs \cup TaskSucceededMsgs }

(* C31: an operation that returns with its threshold met although some     *)
(* server failed returns ok without an error value, each server was        *)
(* attempted once, and the log holds for each server exactly one outcome   *)
(* event of its goroutine naming it: the failure event with the server's   *)
(* error when its call failed, the success event otherwise.                *)
C31_PartialFailureLogged ==
    (CoordinatorReturned /\ result.ok /\ successCount < N) =>
        /\ result = Ok
        /\ \A i \in 1..N :
               LET srv == m.servers[i]
                   err == ClientError(outcome[i])
               IN  /\ attempts[i] = 1
                   /\ Cardinality(TaskEvents(srv)) = 1
                   /\ \A e \in TaskEvents(srv) :
                          /\ e.fqdn = call.fqdn
                          /\ e.err = err
                          /\ e.msg \in TaskFailedMsgs <=> err # NoError

(* a, b answer NOERROR and c times out on an add: ok, the log names c;     *)
C31_Witness ==
    /\ Returned("add") /\ N = 3 /\ result.ok /\ successCount = 2
    /\ outcome[3].kind = "error" /\ outcome[3].cause = "i/o timeout"
    /\ \E e \in log : e.msg = "Failed to add TXT record on server"
                      /\ e.server = m.servers[3]
    /\ \E e \in log : e.msg = "Some servers failed, but minimum success threshold met"

(* The per-server calls of the call with locals f that succeeded, and the  *)
(* verdict its own outcomes give.                                          *)
OwnSuccesses(f) ==
    { i \in 1..Len(f.m.servers) : ClientError(f.outcome[i]) = NoError }

OwnVerdict(f) ==
    IF f.call.op = "add" THEN Cardinality(OwnSuccesses(f)) >= f.m.minSuccess
    ELSE Cardinality(OwnSuccesses(f)) >= 1

Isolated(f) ==
    (f.pc = "done" /\ f.call.op # "none") =>
        /\ f.m.servers = f.req.doc.fields.servers
        /\ f.result.ok <=> OwnVerdict(f)
        /\ f.successCount = Cardinality(OwnSuccesses(f))
        /\ Len(f.errChan) = Len(f.m.servers) - Cardinality(OwnSuccesses(f))
        /\ \A k \in DOMAIN f.errChan :
               \E i \in 1..Len(f.m.servers) :
                   /\ i \notin OwnSuccesses(f)
                   /\ f.errChan[k] = ServerError(f.m.servers[i], ClientError(f.outcome[i]))
        /\ ~f.result.ok => Len(f.result.errors) = Len(f.errChan)

(* C32: of two Present / CleanUp calls running at the same time on one     *)
(* solver, each has returned ok exactly when its own per-server outcomes   *)
(* meet its threshold, with its own configured servers, a success count    *)
(* equal to the number of its own successes and an error list holding its  *)
(* own failures only, whatever the interleaving of the two.                *)
C32_ConcurrentCallsIsolated ==
    Isolated(Frame) /\ Isolated(peer)

(* a Present to two servers that failed on one of them and a CleanUp to    *)
(* one server that succeeded, both returned and neither yet discarded      *)
C32_Witness ==
    /\ pc = "done" /\ call.op = "delete" /\ N = 1 /\ result.ok /\ successCount = 1
    /\ peer.pc = "done" /\ peer.call.op = "add" /\ Len(peer.m.servers) = 2
    /\ ~peer.result.ok /\ peer.successCount = 1 /\ Len(peer.errChan) = 1

(* The servers of the call whose update has been applied. *)
AppliedAt == { i \in 1..N : task[i] = "done" /\ Applied(outcome[i]) }

(* C33: applying the update of a call a second time changes no zone; a     *)
(* delete applied where the name has no TXT record, and an add applied     *)
(* where the name already has the value, leave the server's zone as it     *)
(* was; and a delete returns ok as soon as one server's NOERROR answer is  *)
(* received, also when there was nothing to delete.                        *)
C33_Idempotent ==
    /\ \A a \in ServerIds : \A k \in DOMAIN sent[a] :
           LET once == ServerApply(prev.zones[a], sent[a][k]) IN
           ServerApply(once, sent[a][k]) = once
    /\ \A i \in AppliedAt :
           LET a == m.servers[i] IN
           /\ (call.op = "delete" /\ prev.zones[a][Name] = {}) =>
                  zone[a] = prev.zones[a] /\ others[a] = OtherRecords
           /\ (call.op = "add" /\ call.value \in prev.zones[a][Name]) =>
                  zone[a] = prev.zones[a] /\ others[a] = OtherRecords
    /\ (Returned("delete")
        /\ \E i \in 1..N : outcome[i].kind = "reply" /\ outcome[i].rcode = RcodeSuccess)
           => result.ok

(* a second CleanUp for the name, after one that emptied it on server 1:   *)
(* one of two servers answers NOERROR, nothing changes and it returns ok   *)
C33_Witness ==
    /\ Returned("delete") /\ req.via = "solver" /\ N = 2 /\ result.ok
    /\ prev.op = "delete" /\ prev.ok /\ prev.name = Name
    /\ prev.zones[m.servers[1]][Name] = {}
    /\ outcome[1] = Reply(RcodeSuccess) /\ outcome[2] = Refused
    /\ zone = prev.zones

(* C34: the threshold of every coordinator is at least 1, and at most the  *)
(* number of its servers when it has any; a coordinator without servers    *)
(* has threshold 1, starts no goroutine, sends nothing, changes no zone    *)
(* and its Add and its Delete both return an error.                        *)
C34_EmptyServerList ==
    call.op # "none" =>
        /\ m.minSuccess >= 1
        /\ N >= 1 => m.minSuccess <= N
        /\ N = 0 =>
               /\ m.minSuccess = 1
               /\ launched = 0 /\ wg = 0 /\ task = NoTasks /\ attempts = NoAttempts
               /\ sent = NothingSent /\ zone = prev.zones
               /\ successCount = 0 /\ errChan = <<>>
               /\ pc \in {"wait", "done"}
               /\ pc = "done" => (~result.ok /\ result.err # "" /\ result.errors = <<>>)

(* an Add on a coordinator built with no servers has returned its error *)
C34_Witness ==
    /\ Returned("add") /\ req.via = "coordinator" /\ N = 0 /\ m.minSuccess = 1
    /\ ~result.ok /\ result.err = "insufficient successful updates"
    /\ sent = NothingSent

====
